---- MODULE Spec2Model ----
(***************************************************************************)
(* State-machine model of meticulous/_process.py: the top-level menu loop  *)
(* of run_invocation, the repository store, typo extraction from a staged  *)
(* diff, and the sentinel-file workflow for issues, commits and pull       *)
(* requests.                                                               *)
(*                                                                         *)
(* Text is a sequence of symbols.  A symbol is either one of the           *)
(* whitespace characters below or a non-empty chunk of characters holding  *)
(* neither whitespace at its ends nor a line break ("-", "a", "Teh",       *)
(* "Fix simple typo:").  The markers the code tests for ("-", "+",         *)
(* "--- a/") are always spelled symbol by symbol.                          *)
(***************************************************************************)
EXTENDS Integers, Sequences, FiniteSets

VARIABLES
    pc,                \* position of run_invocation
    store,             \* durable store: collection key -> (name -> record)
    dirs,              \* directories that exist under target (by path)
    fs,                \* files that exist: path -> content
    forked,            \* hosting side: repository names already forked
    cur,               \* (reponame, reposave) held by prepare_a_pr_or_issue
    last,              \* handler run by the last step
    outcome,           \* how the last handler ended
    effects,           \* collaborator calls made by the last handler, in order
    typo,              \* result of get_typo in the last step (NoTypo: not called)
    answered,          \* number of menus the operator has answered
    menu,              \* choices computed by get_pr_or_issue_choices (SpecMenu only)
    diff,              \* staged diff handed to get_typo (SpecTypo only)
    done               \* history: the issue actions that have succeeded, as
                       \* pairs (repository directory, handler)

vars == <<pc, store, dirs, fs, forked, cur, last, outcome, effects, typo,
          answered, menu, diff, done>>

-----------------------------------------------------------------------------
(* Text helpers: the str and re operations the code uses.                   *)

NL == "\n"
BQ == "<backtick>"   \* the character U+0060
SP == " "
TAB == "\t"

\* str.isspace / the complement of \S, restricted to the model's alphabet
Whitespace == {SP, TAB, NL}

\* the boundaries str.splitlines and readline break at, within the alphabet
LineBreaks == {NL}

SetMin(S) == CHOOSE x \in S : \A y \in S : x <= y
SetMax(S) == CHOOSE x \in S : \A y \in S : y <= x

\* s.startswith(p)
StartsWith(s, p) == Len(s) >= Len(p) /\ SubSeq(s, 1, Len(p)) = p

\* s[n:]
DropFirst(s, n) == SubSeq(s, n + 1, Len(s))

\* s.strip()
Strip(s) ==
    LET keep == {i \in 1..Len(s) : s[i] \notin Whitespace}
    IN  IF keep = {} THEN <<>> ELSE SubSeq(s, SetMin(keep), SetMax(keep))

\* s.splitlines(): the lines without their line breaks; no empty last line
RECURSIVE SplitLines(_)
SplitLines(s) ==
    IF s = <<>> THEN <<>>
    ELSE LET brk == {i \in 1..Len(s) : s[i] \in LineBreaks}
         IN  IF brk = {} THEN <<s>>
             ELSE <<SubSeq(s, 1, SetMin(brk) - 1)>>
                      \o SplitLines(DropFirst(s, SetMin(brk)))

\* fobj.readline() on the unread text s: up to and including the first break
ReadLine(s) ==
    LET brk == {i \in 1..Len(s) : s[i] \in LineBreaks}
    IN  IF brk = {} THEN s ELSE SubSeq(s, 1, SetMin(brk))

\* re.findall("\\S+", s): the maximal runs of non-whitespace, in order
RECURSIVE FindAllNonSpace(_)
FindAllNonSpace(s) ==
    LET word == {i \in 1..Len(s) : s[i] \notin Whitespace}
    IN  IF word = {} THEN <<>>
        ELSE LET b == SetMin(word)
                 gaps == {i \in b..Len(s) : s[i] \in Whitespace}
                 e == IF gaps = {} THEN Len(s) ELSE SetMin(gaps) - 1
             IN  <<SubSeq(s, b, e)>> \o FindAllNonSpace(DropFirst(s, e))

Digit(d) ==
    CASE d = 0 -> "0" [] d = 1 -> "1" [] d = 2 -> "2" [] d = 3 -> "3"
      [] d = 4 -> "4" [] d = 5 -> "5" [] d = 6 -> "6" [] d = 7 -> "7"
      [] d = 8 -> "8" [] d = 9 -> "9"

\* f"{issue_num}": the decimal digits of a positive number, as one chunk each
RECURSIVE NumStr(_)
NumStr(n) == IF n < 10 THEN <<Digit(n)>> ELSE NumStr(n \div 10) \o <<Digit(n % 10)>>

\* sep.join(parts)
RECURSIVE Join(_, _)
Join(sep, parts) ==
    IF parts = <<>> THEN <<>>
    ELSE IF Len(parts) = 1 THEN parts[1]
    ELSE parts[1] \o sep \o Join(sep, Tail(parts))

-----------------------------------------------------------------------------
(* get_typo                                                                 *)

OldFileMarker == <<"-", "-", "-", SP, "a", "/">>
OldHeader == <<"-", "-", "-", SP>>
NewHeader == <<"+", "+", "+", SP>>

IsOldFileLine(line) == StartsWith(line, OldFileMarker)
\* IsDelLine without the test for the file header
IsDelLine_any_dash(line) == StartsWith(line, <<"-">>)

IsDelLine(line) == StartsWith(line, <<"-">>) /\ ~StartsWith(line, OldHeader)
IsAddLine(line) ==
    /\ ~IsDelLine(line)
    /\ StartsWith(line, <<"+">>) /\ ~StartsWith(line, NewHeader)

\* the loop at lines 371-375
FilePathsOf(lines) ==
    LET hdr == SelectSeq(lines, IsOldFileLine)
    IN  [i \in 1..Len(hdr) |-> DropFirst(hdr[i], Len(OldFileMarker))]

\* the loop at lines 376-380
DelLinesOf(lines) ==
    LET sel == SelectSeq(lines, IsDelLine)
    IN  [i \in 1..Len(sel) |-> DropFirst(sel[i], 1)]

AddLinesOf(lines) ==
    LET sel == SelectSeq(lines, IsAddLine)
    IN  [i \in 1..Len(sel) |-> DropFirst(sel[i], 1)]

\* zip(del_words, add_words) stops with the shorter sequence
ZipLen(a, b) == IF Len(a) <= Len(b) THEN Len(a) ELSE Len(b)

\* FirstDiffering that keeps looping after a pair that differs
FirstDiffering_last(del_words, add_words) ==
    LET differ == {i \in 1..ZipLen(del_words, add_words) :
                      del_words[i] # add_words[i]}
    IN  IF differ = {} THEN 0 ELSE SetMax(differ)

\* FirstDiffering without the test that the two words differ
FirstDiffering_first_pair(del_words, add_words) ==
    IF ZipLen(del_words, add_words) = 0 THEN 0 ELSE 1

\* the loop over zip(del_words, add_words): the position of the first pair
\* that differs, 0 when the loop ends without one
FirstDiffering(del_words, add_words) ==
    LET differ == {i \in 1..ZipLen(del_words, add_words) :
                      del_words[i] # add_words[i]}
    IN  IF differ = {} THEN 0 ELSE SetMin(differ)

NoWord == <<>>

TypoFailure(message) ==
    [status |-> "ProcessingFailed", message |-> message,
     del_word |-> NoWord, add_word |-> NoWord, file_paths |-> <<>>]

\* get_typo applied to the output of git diff --staged
get_typo(output) ==
    LET lines == SplitLines(output)
        file_paths == FilePathsOf(lines)
        del_lines == DelLinesOf(lines)
        add_lines == AddLinesOf(lines)
    IN  IF del_lines = <<>> \/ add_lines = <<>>
        THEN TypoFailure("Could not read diff")
        ELSE LET del_words == FindAllNonSpace(del_lines[1])
                 add_words == FindAllNonSpace(add_lines[1])
                 at == FirstDiffering(del_words, add_words)
             IN  IF at = 0 THEN TypoFailure("Could not locate typo")
                 ELSE [status |-> "ok", message |-> "",
                       del_word |-> del_words[at], add_word |-> add_words[at],
                       file_paths |-> file_paths]

NoTypo ==
    [status |-> "none", message |-> "",
     del_word |-> NoWord, add_word |-> NoWord, file_paths |-> <<>>]

-----------------------------------------------------------------------------
(* Staged diffs.                                                            *)

\* number of lines of the diffs get_typo is checked on
MaxLines == 3

DiffLines ==
    { <<"-", "-", "-", SP, "a", "/", "foo.txt">>,
      <<"-", "-", "-", SP, "a", "/", "bar.txt">>,
      <<"+", "+", "+", SP, "b", "/", "foo.txt">>,
      <<"-", "-", "-", SP, "q">>,
      <<"-", "Teh", SP, "cat", SP, "sat">>,
      <<"+", "The", SP, "cat", SP, "sat">>,
      <<"+", "Teh", TAB, SP, "cat", SP, "sat", SP>>,
      <<"-", "Teh">>,
      <<"+", "Teh", SP, "cat", SP, "sit">>,
      <<"-">>,
      <<"-", "-", SP, "a", "cat">>,
      <<SP, "Teh", SP, "cat">> }

RECURSIVE SeqsUpTo(_, _)
SeqsUpTo(S, n) ==
    IF n = 0 THEN {<<>>}
    ELSE LET shorter == SeqsUpTo(S, n - 1)
         IN  shorter \cup {Append(q, x) : q \in shorter, x \in S}

\* every line of git's output ends with a line break
RECURSIVE Unlines(_)
Unlines(lines) ==
    IF lines = <<>> THEN <<>> ELSE Head(lines) \o <<NL>> \o Unlines(Tail(lines))

Diffs == {Unlines(lines) : lines \in SeqsUpTo(DiffLines, MaxLines)}

-----------------------------------------------------------------------------
(* Mappings (Python dicts) and the durable store.                           *)

EmptyMap == [x \in {} |-> x]

\* m[k] = v
Put(m, k, v) == [x \in DOMAIN m \cup {k} |-> IF x = k THEN v ELSE m[x]]

\* del m[k]
Del(m, k) == [x \in DOMAIN m \ {k} |-> m[x]]

\* get_json_value(key, {}) of meticulous._storage, reading the store s
get_json_value(s, key) == IF key \in DOMAIN s THEN s[key] ELSE EmptyMap

\* set_json_value(key, value) of meticulous._storage: the store afterwards
set_json_value(s, key, value) == Put(s, key, value)

-----------------------------------------------------------------------------
(* Menus.                                                                   *)

\* an optional value: Python's None, or a value
None == [none |-> TRUE]
Some(v) == [none |-> FALSE, value |-> v]

QuitLabel == "- quit -"

\* what the operator can answer at a menu built from choices
Answers(choices) == DOMAIN choices \cup {QuitLabel}

\* make_choice, given the operator's answer: choices.get(option)
make_choice(choices, option) ==
    IF option \in DOMAIN choices THEN Some(choices[option]) ELSE None

\* make_simple_choice, given the operator's answer
make_simple_choice(choices, option) ==
    make_choice([c \in choices |-> c], option)

\* the lookup table of run_invocation
Lookup ==
    [label \in {"examine a repository", "manually add a new repository",
                "remove a repository", "add a new repository",
                "prepare a change", "prepare a pr/issue"} |->
        CASE label = "examine a repository" -> "examine_repo_selection"
          [] label = "manually add a new repository" -> "manually_add_new_repo"
          [] label = "remove a repository" -> "remove_repo_selection"
          [] label = "add a new repository" -> "add_new_repo"
          [] label = "prepare a change" -> "prepare_a_change"
          [] label = "prepare a pr/issue" -> "prepare_a_pr_or_issue"]

\* IsProcessingFailed with NoRepoException no subclass of ProcessingFailed
IsProcessingFailed_exact(o) == o = "ProcessingFailed"

\* the exceptions that except ProcessingFailed catches (NoRepoException is one)
IsProcessingFailed(o) == o \in {"ProcessingFailed", "NoRepoException"}

\* run_invocation's loop after handler(target) ended with outcome o
AfterHandler(o) ==
    IF o = "returned" \/ IsProcessingFailed(o) THEN "top" ELSE "crashed"

-----------------------------------------------------------------------------
(* Paths and the file system.                                               *)

Target == <<"target">>

\* Path(p).name
PathName(p) == p[Len(p)]

\* str(path)
PathStr(p) == Join(<<"/">>, [i \in 1..Len(p) |-> <<p[i]>>])

issue_template == <<".github", "ISSUE_TEMPLATE">>
pr_template == <<".github", "pull_request_template.md">>
contrib_guide == <<"CONTRIBUTING.md">>
issue == <<"__issue__.txt">>
commit == <<"__commit__.txt">>
prpath == <<"__pr__.txt">>
no_issues == <<"__no_issues__.txt">>
spelling == <<"spelling.txt">>

ProbedPaths ==
    {issue_template, pr_template, contrib_guide, prpath, issue, commit, no_issues}

Exists(p) == p \in DOMAIN fs

\* WriteFile with the file opened for appending
WriteFile_append(files, path, content) ==
    Put(files, path, (IF path \in DOMAIN files THEN files[path] ELSE <<>>) \o content)

\* io.open(path, "w") and the prints into it: the file system afterwards
WriteFile(files, path, content) == Put(files, path, content)

\* RmTree deleting the tree of target instead of the tree of repodir
RmTree_of_target(files, repodir) ==
    [p \in {q \in DOMAIN files : ~StartsWith(q, Target)} |-> files[p]]

\* shutil.rmtree(repodir): the files that remain
RmTree(files, repodir) ==
    [p \in {q \in DOMAIN files : ~StartsWith(q, repodir)} |-> files[p]]

\* print(x, file=fobj)
print_line(x) == x \o <<NL>>

-----------------------------------------------------------------------------
(* The per-repository workflow menu.                                        *)

ContextTrue == <<"True">>
ContextFalse == <<"False">>
ContextNone == <<>>

Choice(handler, context) == [handler |-> handler, context |-> context]

\* f"show {path}" for the probed paths
ShowLabel(path) ==
    CASE path = issue_template -> "show .github/ISSUE_TEMPLATE"
      [] path = pr_template -> "show .github/pull_request_template.md"
      [] path = contrib_guide -> "show CONTRIBUTING.md"
      [] path = prpath -> "show __pr__.txt"
      [] path = issue -> "show __issue__.txt"
      [] path = commit -> "show __commit__.txt"
      [] path = no_issues -> "show __no_issues__.txt"

\* the loop over the probed paths: a "show" entry for each one that exists
ShowChoices(files, repodirpath) ==
    LET shown == {path \in ProbedPaths : (repodirpath \o path) \in DOMAIN files}
    IN  [label \in {ShowLabel(path) : path \in shown} |->
            Choice("show_path", CHOOSE path \in shown : ShowLabel(path) = label)]

\* DraftChoices with the issue entries added outside the else branch
DraftChoices_without_else(choices, repo_disables_issues) ==
    LET drafted == IF repo_disables_issues
                   THEN Put(choices, "make a commit",
                            Choice("make_a_commit", ContextFalse))
                   ELSE choices
    IN  Put(Put(drafted, "make a full issue", Choice("make_issue", ContextTrue)),
            "make a short issue", Choice("make_issue", ContextFalse))

\* DraftChoices offering "make a commit" whether or not issues are disabled
DraftChoices_always_commit(choices, repo_disables_issues) ==
    LET drafted == IF repo_disables_issues
                   THEN choices
                   ELSE Put(Put(choices, "make a full issue",
                                Choice("make_issue", ContextTrue)),
                            "make a short issue", Choice("make_issue", ContextFalse))
    IN  Put(drafted, "make a commit", Choice("make_a_commit", ContextFalse))

\* the drafting entries added to choices
DraftChoices(choices, repo_disables_issues) ==
    IF repo_disables_issues
    THEN Put(choices, "make a commit", Choice("make_a_commit", ContextFalse))
    ELSE Put(Put(choices, "make a full issue", Choice("make_issue", ContextTrue)),
             "make a short issue", Choice("make_issue", ContextFalse))

\* SubmitChoices offering "submit commit" only until __pr__.txt exists
SubmitChoices_until_pr(choices, has_issue, has_commit) ==
    LET c2 == IF has_issue \/ has_commit
              THEN Put(choices, "submit issue", Choice("submit_issue", ContextNone))
              ELSE choices
    IN  IF has_commit /\ "show __pr__.txt" \notin DOMAIN choices
        THEN Put(c2, "submit commit", Choice("submit_commit", ContextNone))
        ELSE c2

\* the submitting entries added to choices
SubmitChoices(choices, has_issue, has_commit) ==
    LET c2 == IF has_issue
              THEN Put(choices, "submit issue", Choice("submit_issue", ContextNone))
              ELSE choices
    IN  IF has_commit
        THEN Put(Put(c2, "submit commit", Choice("submit_commit", ContextNone)),
                 "submit issue", Choice("submit_issue", ContextNone))
        ELSE c2

\* get_pr_or_issue_choices, probing the files of the file system files
get_pr_or_issue_choices(files, reponame, repodirpath) ==
    LET has(path) == (repodirpath \o path) \in DOMAIN files
    IN  SubmitChoices(DraftChoices(ShowChoices(files, repodirpath), has(no_issues)),
                      has(issue), has(commit))

-----------------------------------------------------------------------------
(* Drafts.                                                                  *)

\* f"Fix simple typo: {del_word} -> {add_word}"
TitleOf(del_word, add_word) ==
    <<"Fix simple typo:", SP>> \o del_word \o <<SP, "->", SP>> \o add_word

\* ", ".join(file_paths)
FilesOf(file_paths) == Join(<<",", SP>>, file_paths)

FullBody(reposave) ==
    <<"# Issue Type", NL, NL, "[x] Bug (Typo)", NL, NL,
      "# Steps to Replicate", NL, NL, "1. Examine", SP>>
    \o FilesOf(reposave.file_paths)
    \o <<".", NL, "2. Search for", SP, BQ>> \o reposave.del_word
    \o <<BQ, ".", NL, NL, "# Expected Behaviour", NL, NL, "1. Should read", SP, BQ>>
    \o reposave.add_word \o <<BQ, ".", NL>>

ShortBody(reposave) ==
    <<"There is a small typo in", SP>> \o FilesOf(reposave.file_paths)
    \o <<".", NL, "Should read", SP, BQ>> \o reposave.add_word
    \o <<BQ, SP, "rather than", SP, BQ>> \o reposave.del_word \o <<BQ, ".", NL>>

\* IssueDraft without the print of the empty line
IssueDraft_no_blank_line(reposave, is_full) ==
    print_line(TitleOf(reposave.del_word, reposave.add_word))
    \o print_line(IF is_full = ContextTrue THEN FullBody(reposave)
                  ELSE ShortBody(reposave))

\* what make_issue prints into __issue__.txt
IssueDraft(reposave, is_full) ==
    print_line(TitleOf(reposave.del_word, reposave.add_word))
    \o print_line(<<>>)
    \o print_line(IF is_full = ContextTrue THEN FullBody(reposave)
                  ELSE ShortBody(reposave))

\* what make_a_commit prints into __commit__.txt
CommitDraft(reposave) ==
    print_line(TitleOf(reposave.del_word, reposave.add_word)
               \o <<NL, NL>> \o ShortBody(reposave))

\* what submit_issue prints into __commit__.txt
ClosesDraft(reposave, issue_num) ==
    print_line(TitleOf(reposave.del_word, reposave.add_word)
               \o <<NL, NL, "Closes", SP, "#">> \o NumStr(issue_num) \o <<NL>>)

\* load_commit_like_file on a file holding content
load_commit_like_file(content) ==
    LET line1 == ReadLine(content)
        rest1 == DropFirst(content, Len(line1))
        line2 == ReadLine(rest1)
        rest2 == DropFirst(rest1, Len(line2))
        blankline == Strip(line2)
    IN  IF blankline # <<>>
        THEN [raised |-> TRUE, title |-> <<>>, body |-> <<>>]
        ELSE [raised |-> FALSE, title |-> Strip(line1), body |-> rest2]

-----------------------------------------------------------------------------
(* Hosting API and version control.                                         *)

UserOrg == "me"

\* f"{user_org}/{reponame}"
FullName(org, reponame) == <<org, "/", reponame>>

NoParent == <<>>

\* repo.parent along the fork chains known to the hosting service
ParentOf(repo) ==
    IF repo = FullName(UserOrg, "r1") THEN FullName("org", "r1")
    ELSE IF repo = FullName(UserOrg, "r2") THEN FullName("mid", "r2")
    ELSE IF repo = FullName("mid", "r2") THEN FullName("org", "r2")
    ELSE NoParent

\* while repo.parent: repo = repo.parent
RECURSIVE RootOf(_)
RootOf(repo) == IF ParentOf(repo) = NoParent THEN repo ELSE RootOf(ParentOf(repo))

Call(op, args) == [op |-> op, args |-> args]

\* f"bugfix/typo_{add_word}"
FromBranch(add_word) == <<"bugfix/typo_">> \o add_word

\* PushCommitCalls pushing before it commits
PushCommitCalls_push_first(repodir, add_word, to_branch) ==
    << Call("git symbolic-ref", <<repodir, <<"--short">>, <<"HEAD">>>>),
       Call("git push", <<repodir, <<"origin">>,
                          to_branch \o <<":">> \o FromBranch(add_word)>>),
       Call("git commit", <<repodir, <<"-F">>, <<"__commit__.txt">>>>) >>

\* the commands push_commit runs, in order
PushCommitCalls(repodir, add_word, to_branch) ==
    << Call("git symbolic-ref", <<repodir, <<"--short">>, <<"HEAD">>>>),
       Call("git commit", <<repodir, <<"-F">>, <<"__commit__.txt">>>>),
       Call("git push", <<repodir, <<"origin">>,
                          to_branch \o <<":">> \o FromBranch(add_word)>>) >>

\* the request create_pr sends
CreatePullCall(reponame, title, body, from_branch, to_branch) ==
    Call("create_pull", <<RootOf(FullName(UserOrg, reponame)), title, body,
                          to_branch, <<UserOrg, ":">> \o from_branch>>)

\* CreateIssueCall without the walk up the parents
CreateIssueCall_on_fork(reponame, title, body) ==
    Call("create_issue", <<FullName(UserOrg, reponame), title, body>>)

\* the request issue_via_api sends
CreateIssueCall(reponame, title, body) ==
    Call("create_issue", <<RootOf(FullName(UserOrg, reponame)), title, body>>)

-----------------------------------------------------------------------------
(* Inputs of the session.                                                   *)

\* the staged diffs the repositories of the session can hold
MainDiffs ==
    { Unlines(<< <<"-", "-", "-", SP, "a", "/", "foo.txt">>,
                 <<"+", "+", "+", SP, "b", "/", "foo.txt">>,
                 <<"@@">>,
                 <<"-", "Teh", SP, "cat", SP, "sat">>,
                 <<"+", "The", SP, "cat", SP, "sat">> >>),
      Unlines(<< <<"-", "-", "-", SP, "a", "/", "foo.txt">>,
                 <<"-", "Teh", SP, "cat", SP, "sat">>,
                 <<"+", "Teh", SP, "cat", SP, "sit">>,
                 <<"-", "-", "-", SP, "a", "/", "bar.txt">>,
                 <<"-", "x">>, <<"+", "y">> >>),
      Unlines(<< <<"-", "-", "-", SP, "a", "/", "foo.txt">>,
                 <<"-", "Teh", SP, "cat">>,
                 <<"+", "Teh", SP, "cat", SP, "sat">> >>),
      Unlines(<< <<"-", "-", "-", SP, "a", "/", "foo.txt">>,
                 <<SP, "Teh", SP, "cat">> >>),
      \* git configured with diff.noprefix: the headers carry no "a/", "b/"
      Unlines(<< <<"-", "-", "-", SP, "foo.txt">>,
                 <<"+", "+", "+", SP, "foo.txt">>,
                 <<"-", "Teh", SP, "cat">>,
                 <<"+", "The", SP, "cat">> >>) }

\* what the operator can leave in a draft opened in the editor
EditedDrafts ==
    { <<"Fix it", NL>>,
      <<"Fix it", NL, "now", NL>>,
      <<"Fix it", NL, SP, NL, "now", NL>> }

\* the branches that can be checked out in a repository
Branches == {<<"master">>, <<"dev">>}

\* the issue numbers the hosting service hands out
MaxIssueNum == 1

\* the number of menus the operator answers in a session
MaxAnswers == 7

\* the candidates obtain_sources yields
Sources == << FullName("org", "r1"), FullName("mid", "r2"), FullName("alt", "r1") >>

\* the tracked files among the probed paths that a checkout of repo brings
CheckoutTree(repo) == IF repo = "r1" THEN {} ELSE {contrib_guide, prpath}

-----------------------------------------------------------------------------
(* The session: run_invocation after prepare(), target being a directory.   *)

NoSave == [add_word |-> NoWord, del_word |-> NoWord, file_paths |-> <<>>,
           repodir |-> <<>>]
NoCur == [reponame |-> "", reposave |-> NoSave]

Init ==
    /\ pc = "top"
    /\ store = EmptyMap
    /\ dirs = {}
    /\ fs = EmptyMap
    /\ forked = {}
    /\ cur = NoCur
    /\ last = ""
    /\ outcome = ""
    /\ effects = <<>>
    /\ typo = NoTypo
    /\ answered = 0
    /\ menu = EmptyMap
    /\ diff = <<>>
    /\ done = {}

\* what the last step did: its handler, how it ended, the calls it made
Ended(handler, o, calls, t) ==
    /\ last' = handler
    /\ outcome' = o
    /\ effects' = calls
    /\ typo' = t
    /\ answered' = answered + 1

\* a top-level handler ended with outcome o
TopEnded(handler, o, calls, t) ==
    /\ Ended(handler, o, calls, t)
    /\ pc' = AfterHandler(o)

\* the operator is still there to answer a menu
Prompted == answered < MaxAnswers

\* the top-level menu dispatches label to handler
Dispatch(label, handler) ==
    /\ pc = "top"
    /\ Prompted
    /\ make_choice(Lookup, label) = Some(handler)

\* pick_repo_common, given the operator's answer
pick_repo_common(key, option) ==
    LET repository_list == get_json_value(store, key)
    IN  IF DOMAIN repository_list = {} THEN [raised |-> TRUE]
        ELSE IF make_simple_choice(DOMAIN repository_list, option).none
        THEN [raised |-> TRUE]
        ELSE [raised |-> FALSE, option |-> option,
              repo_data |-> repository_list[option]]

pick_repo(option) == pick_repo_common("repository_map", option)
pick_repo_save(option) == pick_repo_common("repository_saves", option)

\* the operator chooses "- quit -" at the top-level menu
Quit ==
    /\ pc = "top"
    /\ Prompted
    /\ make_choice(Lookup, QuitLabel).none
    /\ pc' = "returned"
    /\ Ended("run_invocation", "returned", <<>>, NoTypo)
    /\ UNCHANGED <<store, dirs, fs, forked, cur, menu, diff, done>>

examine_repo_selection ==
    /\ Dispatch("examine a repository", "examine_repo_selection")
    /\ \E option \in Answers(get_json_value(store, "repository_map")) :
          LET picked == pick_repo(option)
          IN  IF picked.raised
              THEN TopEnded("examine_repo_selection", "NoRepoException", <<>>, NoTypo)
              ELSE \E editor_ok \in BOOLEAN :
                      TopEnded("examine_repo_selection",
                               IF editor_ok THEN "returned"
                               ELSE "ProcessExecutionError",
                               <<Call("vim", <<picked.repo_data, spelling>>)>>,
                               NoTypo)
    /\ UNCHANGED <<store, dirs, fs, forked, cur, menu, diff, done>>

manually_add_new_repo ==
    /\ Dispatch("manually add a new repository", "manually_add_new_repo")
    /\ LET choices == {PathName(d) : d \in dirs}
       IN  \E answer \in choices \cup {QuitLabel} :
              LET option == make_simple_choice(choices, answer)
                  repository_map == get_json_value(store, "repository_map")
              IN  IF option.none
                  THEN /\ TopEnded("manually_add_new_repo", "NoRepoException",
                                   <<>>, NoTypo)
                       /\ UNCHANGED store
                  ELSE /\ store' = set_json_value(store, "repository_map",
                                       Put(repository_map, option.value,
                                           Target \o <<option.value>>))
                       /\ TopEnded("manually_add_new_repo", "returned",
                                   <<Call("set_json_value", <<<<"repository_map">>>>)>>,
                                   NoTypo)
    /\ UNCHANGED <<dirs, fs, forked, cur, menu, diff, done>>

\* RemoveFrom with the loop running over "repository_map" alone
RemoveFrom_map_only(s, name, repo) ==
    LET repository_map == get_json_value(s, name)
    IN  IF name = "repository_map" /\ repo \in DOMAIN repository_map
        THEN set_json_value(s, name, Del(repository_map, repo))
        ELSE s

\* one round of the loop of remove_repo_selection: the store afterwards
RemoveFrom(s, name, repo) ==
    LET repository_map == get_json_value(s, name)
    IN  IF repo \in DOMAIN repository_map
        THEN set_json_value(s, name, Del(repository_map, repo))
        ELSE s

\* the set_json_value calls of that loop
RemoveCalls(s, repo) ==
    SelectSeq(<< Call("set_json_value", <<<<"repository_map">>>>),
                 Call("set_json_value", <<<<"repository_saves">>>>) >>,
              LAMBDA c : repo \in DOMAIN get_json_value(s, c.args[1][1]))

remove_repo_selection ==
    /\ Dispatch("remove a repository", "remove_repo_selection")
    /\ \E answer \in Answers(get_json_value(store, "repository_map")) :
          LET picked == pick_repo(answer)
          IN  IF picked.raised
              THEN /\ TopEnded("remove_repo_selection", "NoRepoException",
                               <<>>, NoTypo)
                   /\ UNCHANGED <<store, dirs, fs>>
              ELSE \E delete \in {"Yes", "No", QuitLabel} :
                   LET repo == picked.option
                       repodir == picked.repo_data
                       option == make_simple_choice({"Yes", "No"}, delete)
                       rmtree == option = Some("Yes")
                   IN  /\ store' = RemoveFrom(RemoveFrom(store, "repository_map", repo),
                                              "repository_saves", repo)
                       /\ IF rmtree /\ repodir \in dirs
                          THEN dirs' = dirs \ {repodir} /\ fs' = RmTree(fs, repodir)
                          ELSE UNCHANGED <<dirs, fs>>
                       /\ TopEnded("remove_repo_selection",
                                   IF rmtree /\ repodir \notin dirs
                                   THEN "FileNotFoundError" ELSE "returned",
                                   RemoveCalls(store, repo)
                                   \o (IF rmtree THEN <<Call("rmtree", <<repodir>>)>>
                                       ELSE <<>>),
                                   NoTypo)
    /\ UNCHANGED <<forked, cur, menu, diff, done>>

\* check_forked(repo) and fork(orgrepo) of meticulous._github
check_forked(fk, repo) == repo \in fk
fork(fk, repo) == fk \cup {repo}

\* orgrepo.split("/", 1)[1]; a repository name is one chunk
RepoOf(orgrepo) ==
    LET slash == {i \in 1..Len(orgrepo) : orgrepo[i] = "/"}
    IN  orgrepo[SetMin(slash) + 1]

\* the calls of add_new_repo for a candidate that is not yet forked, up to
\* the answer of is_archived
ForkCalls(orgrepo, answer) ==
    << Call("fork", <<orgrepo>>), Call("is_archived", <<orgrepo, <<answer>>>>) >>

\* the calls of add_new_repo that acquire repo, after is_archived
AcquireCalls(repo) ==
    << Call("checkout", <<<<repo>>, Target>>),
       Call("check", <<Target \o <<repo>>>>),
       Call("set_json_value", <<<<"repository_map">>>>) >>

\* AddNewRepoWalk without the continue for an archived candidate
RECURSIVE AddNewRepoWalk_no_continue(_, _, _, _)
AddNewRepoWalk_no_continue(cands, fk, archived, calls) ==
    IF cands = <<>> THEN [result |-> None, forked |-> fk, calls |-> calls]
    ELSE LET orgrepo == Head(cands)
             repo == RepoOf(orgrepo)
         IN  IF check_forked(fk, repo)
             THEN AddNewRepoWalk_no_continue(Tail(cands), fk, archived, calls)
             ELSE [result |-> Some(repo), forked |-> fork(fk, repo),
                   calls |-> calls
                             \o ForkCalls(orgrepo, IF orgrepo \in archived
                                                   THEN "True" ELSE "False")
                             \o AcquireCalls(repo)]

\* the loop of add_new_repo over the candidates, is_archived answering archived:
\* the repository it returns (or None), the forks made, the calls made
RECURSIVE AddNewRepoWalk(_, _, _, _)
AddNewRepoWalk(cands, fk, archived, calls) ==
    IF cands = <<>> THEN [result |-> None, forked |-> fk, calls |-> calls]
    ELSE LET orgrepo == Head(cands)
             repo == RepoOf(orgrepo)
         IN  IF check_forked(fk, repo)
             THEN AddNewRepoWalk(Tail(cands), fk, archived, calls)
             ELSE IF orgrepo \in archived
             THEN AddNewRepoWalk(Tail(cands), fork(fk, repo), archived,
                                 calls \o ForkCalls(orgrepo, "True"))
             ELSE [result |-> Some(repo), forked |-> fork(fk, repo),
                   calls |-> calls \o ForkCalls(orgrepo, "False")
                                   \o AcquireCalls(repo)]

add_new_repo ==
    /\ Dispatch("add a new repository", "add_new_repo")
    /\ \E archived \in SUBSET {Sources[i] : i \in 1..Len(Sources)} :
          LET walk == AddNewRepoWalk(Sources, forked, archived, <<>>)
          IN  /\ forked' = walk.forked
              /\ TopEnded("add_new_repo", "returned", walk.calls, NoTypo)
              /\ IF walk.result.none
                 THEN UNCHANGED <<store, dirs, fs>>
                 ELSE \E issues_allowed \in BOOLEAN :
                      LET repo == walk.result.value
                          repodir == Target \o <<repo>>
                          tree == CheckoutTree(repo)
                          checked_out == [q \in {repodir \o path : path \in tree}
                                             \cup DOMAIN fs |->
                                             IF q \in DOMAIN fs THEN fs[q] ELSE <<>>]
                          spelled == WriteFile(checked_out, repodir \o spelling, <<>>)
                          repository_map == get_json_value(store, "repository_map")
                      IN  /\ dirs' = dirs \cup {repodir}
                          /\ store' = set_json_value(store, "repository_map",
                                          Put(repository_map, repo, repodir))
                          /\ fs' = IF issues_allowed THEN spelled
                                   ELSE WriteFile(spelled, repodir \o no_issues,
                                                  print_line(<<"No Issues.">>))
    /\ UNCHANGED <<cur, menu, diff, done>>

\* SaveOf with the two words stored under each other's key
SaveOf_swapped(t, repodir) ==
    [add_word |-> t.del_word, del_word |-> t.add_word,
     file_paths |-> t.file_paths, repodir |-> repodir]

\* the save add_change_for_repo stores for a typo found in repodir
SaveOf(t, repodir) ==
    [add_word |-> t.add_word, del_word |-> t.del_word,
     file_paths |-> t.file_paths, repodir |-> repodir]

\* add_change_for_repo after get_typo returned t: the store afterwards
add_change_for_repo(s, t, repodir) ==
    LET saves == get_json_value(s, "repository_saves")
        reponame == PathName(repodir)
    IN  set_json_value(s, "repository_saves", Put(saves, reponame, SaveOf(t, repodir)))

prepare_a_change ==
    /\ Dispatch("prepare a change", "prepare_a_change")
    /\ \E answer \in Answers(get_json_value(store, "repository_map")) :
          LET picked == pick_repo(answer)
              repodir == picked.repo_data
              diff_call == Call("git diff", <<repodir, <<"--staged">>>>)
          IN  IF picked.raised
              THEN /\ TopEnded("prepare_a_change", "NoRepoException", <<>>, NoTypo)
                   /\ UNCHANGED store
              ELSE \/ /\ TopEnded("prepare_a_change", "ProcessExecutionError",
                                  <<diff_call>>, NoTypo)
                      /\ UNCHANGED store
                   \/ \E output \in MainDiffs :
                      LET t == get_typo(output)
                      IN  IF t.status # "ok"
                          THEN /\ TopEnded("prepare_a_change", "ProcessingFailed",
                                           <<diff_call>>, t)
                               /\ UNCHANGED store
                          ELSE \E save \in {"save", QuitLabel} :
                               IF make_simple_choice({"save"}, save) = Some("save")
                               THEN /\ store' = add_change_for_repo(store, t, repodir)
                                    /\ TopEnded("prepare_a_change", "returned",
                                          <<diff_call,
                                            Call("set_json_value",
                                                 <<<<"repository_saves">>>>)>>, t)
                               ELSE /\ TopEnded("prepare_a_change", "returned",
                                                <<diff_call>>, t)
                                    /\ UNCHANGED store
    /\ UNCHANGED <<dirs, fs, forked, cur, menu, diff, done>>

\* prepare_a_pr_or_issue up to its first menu
prepare_a_pr_or_issue ==
    /\ Dispatch("prepare a pr/issue", "prepare_a_pr_or_issue")
    /\ \E answer \in Answers(get_json_value(store, "repository_saves")) :
          LET picked == pick_repo_save(answer)
          IN  IF picked.raised
              THEN /\ TopEnded("prepare_a_pr_or_issue", "NoRepoException",
                               <<>>, NoTypo)
                   /\ UNCHANGED cur
              ELSE /\ cur' = [reponame |-> picked.option,
                              reposave |-> picked.repo_data]
                   /\ pc' = "workflow"
                   /\ Ended("prepare_a_pr_or_issue", "running", <<>>, NoTypo)
    /\ UNCHANGED <<store, dirs, fs, forked, menu, diff, done>>

-----------------------------------------------------------------------------
(* The loop of prepare_a_pr_or_issue: one menu and its handler per step.    *)

\* the menu of the repository held by prepare_a_pr_or_issue
CurChoices == get_pr_or_issue_choices(fs, cur.reponame, cur.reposave.repodir)

\* the operator's answer at the workflow menu selects handler
Selects(option, handler) ==
    /\ pc = "workflow"
    /\ Prompted
    /\ option \in DOMAIN CurChoices
    /\ ~make_choice(CurChoices, option).none
    /\ make_choice(CurChoices, option).value.handler = handler

\* a workflow handler ended with outcome o: back to the menu of the loop, or
\* the exception leaves prepare_a_pr_or_issue for run_invocation
WorkflowEnded(handler, o, calls) ==
    /\ Ended(handler, o, calls, NoTypo)
    /\ done' = IF o = "returned" /\ handler \in {"make_issue", "submit_issue"}
               THEN done \cup {<<cur.reposave.repodir, handler>>}
               ELSE done
    /\ IF o = "returned"
       THEN pc' = "workflow" /\ UNCHANGED cur
       ELSE pc' = AfterHandler(o) /\ cur' = NoCur

\* the operator chooses "- quit -" at the workflow menu
workflow_quit ==
    /\ pc = "workflow"
    /\ Prompted
    /\ make_choice(CurChoices, QuitLabel).none
    /\ TopEnded("prepare_a_pr_or_issue", "returned", <<>>, NoTypo)
    /\ cur' = NoCur
    /\ UNCHANGED <<store, dirs, fs, forked, menu, diff, done>>

show_path ==
    \E option \in Answers(CurChoices) :
       /\ Selects(option, "show_path")
       /\ LET path == CurChoices[option].context
              repodir == cur.reposave.repodir
              opened == Call("vim", <<repodir, path>>)
          IN  \/ /\ UNCHANGED fs
                 /\ \E editor_ok \in BOOLEAN :
                       WorkflowEnded("show_path",
                                     IF editor_ok THEN "returned"
                                     ELSE "ProcessExecutionError", <<opened>>)
              \/ /\ path \in {issue, commit}
                 /\ \E text \in EditedDrafts :
                       fs' = WriteFile(fs, repodir \o path, text)
                 /\ WorkflowEnded("show_path", "returned", <<opened>>)
       /\ UNCHANGED <<store, dirs, forked, menu, diff>>

make_issue ==
    \E option \in Answers(CurChoices) :
       /\ Selects(option, "make_issue")
       /\ LET is_full == CurChoices[option].context
              reposave == cur.reposave
          IN  fs' = WriteFile(fs, reposave.repodir \o issue,
                              IssueDraft(reposave, is_full))
       /\ WorkflowEnded("make_issue", "returned", <<>>)
       /\ UNCHANGED <<store, dirs, forked, menu, diff>>

make_a_commit ==
    \E option \in Answers(CurChoices) :
       /\ Selects(option, "make_a_commit")
       /\ fs' = WriteFile(fs, cur.reposave.repodir \o commit,
                          CommitDraft(cur.reposave))
       /\ WorkflowEnded("make_a_commit", "returned", <<>>)
       /\ UNCHANGED <<store, dirs, forked, menu, diff>>

submit_issue ==
    \E option \in Answers(CurChoices) :
       /\ Selects(option, "submit_issue")
       /\ LET reposave == cur.reposave
              issue_path == reposave.repodir \o issue
              commit_path == reposave.repodir \o commit
              loaded == load_commit_like_file(fs[issue_path])
              request == CreateIssueCall(cur.reponame, loaded.title, loaded.body)
          IN  IF ~Exists(issue_path)
              THEN /\ WorkflowEnded("submit_issue", "FileNotFoundError", <<>>)
                   /\ UNCHANGED fs
              ELSE IF loaded.raised
              THEN /\ WorkflowEnded("submit_issue", "Exception", <<>>)
                   /\ UNCHANGED fs
              ELSE \/ /\ WorkflowEnded("submit_issue", "GithubException",
                                       <<request>>)
                      /\ UNCHANGED fs
                   \/ \E issue_num \in 1..MaxIssueNum :
                         /\ fs' = WriteFile(fs, commit_path,
                                            ClosesDraft(reposave, issue_num))
                         /\ WorkflowEnded("submit_issue", "returned",
                                          <<request,
                                            Call("issue.number",
                                                 <<NumStr(issue_num)>>)>>)
       /\ UNCHANGED <<store, dirs, forked, menu, diff>>

\* the calls of push_commit and create_pr, up to and including the one that
\* fails (all of them when none fails)
SubmitCommitCalls(reponame, reposave, loaded, to_branch, failing) ==
    LET pushing == PushCommitCalls(reposave.repodir, reposave.add_word, to_branch)
        pull == CreatePullCall(reponame, loaded.title, loaded.body,
                               FromBranch(reposave.add_word), to_branch)
        all == Append(pushing, pull)
        made == {i \in 1..Len(all) : all[i].op = failing}
    IN  IF made = {} THEN all ELSE SubSeq(all, 1, SetMin(made))

submit_commit ==
    \E option \in Answers(CurChoices) :
       /\ Selects(option, "submit_commit")
       /\ LET reposave == cur.reposave
              commit_path == reposave.repodir \o commit
              loaded == load_commit_like_file(fs[commit_path])
          IN  IF ~Exists(commit_path)
              THEN WorkflowEnded("submit_commit", "FileNotFoundError", <<>>)
              ELSE IF loaded.raised
              THEN WorkflowEnded("submit_commit", "Exception", <<>>)
              ELSE \E to_branch \in Branches,
                      failing \in {"none", "git symbolic-ref", "git commit",
                                   "git push", "create_pull"} :
                      WorkflowEnded("submit_commit",
                                    CASE failing = "none" -> "returned"
                                      [] failing = "create_pull" -> "GithubException"
                                      [] OTHER -> "ProcessExecutionError",
                                    SubmitCommitCalls(cur.reponame, reposave, loaded,
                                                      to_branch, failing))
       /\ UNCHANGED <<store, dirs, fs, forked, menu, diff>>

Next ==
    \/ Quit
    \/ examine_repo_selection
    \/ manually_add_new_repo
    \/ remove_repo_selection
    \/ add_new_repo
    \/ prepare_a_change
    \/ prepare_a_pr_or_issue
    \/ workflow_quit
    \/ show_path
    \/ make_issue
    \/ make_a_commit
    \/ submit_issue
    \/ submit_commit

Spec == Init /\ [][Next]_vars

-----------------------------------------------------------------------------
(* get_typo on its own, over every diff of at most MaxLines lines.          *)

InitTypo ==
    /\ pc = "get_typo"
    /\ diff \in Diffs
    /\ typo = NoTypo
    /\ store = EmptyMap
    /\ dirs = {}
    /\ fs = EmptyMap
    /\ forked = {}
    /\ cur = NoCur
    /\ last = ""
    /\ outcome = ""
    /\ effects = <<>>
    /\ answered = 0
    /\ menu = EmptyMap
    /\ done = {}

call_get_typo ==
    /\ pc = "get_typo"
    /\ typo' = get_typo(diff)
    /\ pc' = "got_typo"
    /\ last' = "get_typo"
    /\ outcome' = IF get_typo(diff).status = "ok" THEN "returned"
                  ELSE "ProcessingFailed"
    /\ UNCHANGED <<store, dirs, fs, forked, cur, effects, answered, menu, diff, done>>

NextTypo == call_get_typo

SpecTypo == InitTypo /\ [][NextTypo]_vars

-----------------------------------------------------------------------------
(* get_pr_or_issue_choices on its own, over every combination of the probed *)
(* files in the directory of a saved repository.                            *)

ProbedRepodir == Target \o <<"r1">>

InitMenu ==
    /\ pc = "probe"
    /\ \E present \in SUBSET ProbedPaths :
          fs = [q \in {ProbedRepodir \o path : path \in present} |-> <<>>]
    /\ cur = [reponame |-> "r1",
              reposave |-> [NoSave EXCEPT !.repodir = ProbedRepodir]]
    /\ menu = EmptyMap
    /\ store = EmptyMap
    /\ dirs = {ProbedRepodir}
    /\ forked = {}
    /\ last = ""
    /\ outcome = ""
    /\ effects = <<>>
    /\ typo = NoTypo
    /\ answered = 0
    /\ diff = <<>>
    /\ done = {}

call_get_pr_or_issue_choices ==
    /\ pc = "probe"
    /\ menu' = CurChoices
    /\ pc' = "probed"
    /\ last' = "get_pr_or_issue_choices"
    /\ UNCHANGED <<store, dirs, fs, forked, cur, outcome, effects, typo, answered,
                   diff, done>>

NextMenu == call_get_pr_or_issue_choices

SpecMenu == InitMenu /\ [][NextMenu]_vars

-----------------------------------------------------------------------------
(* Properties.                                                              *)

CurRepodir == cur.reposave.repodir
Saves == get_json_value(store, "repository_saves")
KnownRepos == get_json_value(store, "repository_map")

\* C1: for every combination of the probed files, the menu offers "make a
\* commit" and neither issue variant when __no_issues__.txt is present, and
\* both issue variants and no "make a commit" when it is absent.
C1_DraftingFollowsIssuesFlag ==
    pc = "probed" =>
        LET offered == DOMAIN menu
            disabled == Exists(CurRepodir \o no_issues)
        IN  /\ disabled =>
                /\ "make a commit" \in offered
                /\ menu["make a commit"].handler = "make_a_commit"
                /\ offered \cap {"make a full issue", "make a short issue"} = {}
            /\ ~disabled =>
                /\ {"make a full issue", "make a short issue"} \subseteq offered
                /\ menu["make a full issue"] = Choice("make_issue", ContextTrue)
                /\ menu["make a short issue"] = Choice("make_issue", ContextFalse)
                /\ "make a commit" \notin offered

C1_Witness ==
    /\ pc = "probed"
    /\ Exists(CurRepodir \o no_issues)
    /\ Exists(CurRepodir \o issue)
    /\ Exists(CurRepodir \o commit)
    /\ "make a commit" \in DOMAIN menu

\* C2: at every workflow menu, "submit issue" is offered exactly when
\* __issue__.txt is present, and submit_issue never runs without it.
C2_SubmitIssueIffIssueDraft ==
    /\ pc = "workflow" =>
          ("submit issue" \in DOMAIN CurChoices <=> Exists(CurRepodir \o issue))
    /\ last = "submit_issue" => outcome # "FileNotFoundError"

\* C3: a draft just written by make_issue, make_a_commit or submit_issue has
\* the title "Fix simple typo: <deleteWord> -> <addWord>" as line 1 and an
\* empty line 2, and load_commit_like_file reads it without raising and
\* returns that title.
C3_FreshDraftsLoad ==
    (pc = "workflow" /\ outcome = "returned"
        /\ last \in {"make_issue", "make_a_commit", "submit_issue"}) =>
    LET path == CurRepodir \o (IF last = "make_issue" THEN issue ELSE commit)
        title == <<"Fix simple typo:", SP>> \o cur.reposave.del_word
                    \o <<SP, "->", SP>> \o cur.reposave.add_word
        lines == SplitLines(fs[path])
        loaded == load_commit_like_file(fs[path])
    IN  /\ Exists(path)
        /\ Len(lines) >= 2
        /\ lines[1] = title
        /\ lines[2] = <<>>
        /\ ~loaded.raised
        /\ loaded.title = title

C3_Witness ==
    /\ pc = "workflow"
    /\ outcome = "returned"
    /\ last = "submit_issue"
    /\ Exists(CurRepodir \o commit)
    /\ Len(cur.reposave.file_paths) = 2

\* a draft that has no blank second line: no second line, or one that holds
\* something other than whitespace
MissingBlankSecondLine(content) ==
    LET lines == SplitLines(content)
    IN  Len(lines) < 2 \/ Strip(lines[2]) # <<>>

\* the draft that handler reads
DraftRead(handler) ==
    fs[CurRepodir \o (IF handler = "submit_issue" THEN issue ELSE commit)]

\* C4: submit issue and submit commit reject a draft that is missing the blank
\* second line, and then create no issue, write no commit-message sentinel,
\* commit and push nothing and create no pull request.
C4_RejectsDraftMissingBlankLine ==
    [][\A handler \in {"submit_issue", "submit_commit"} :
          (/\ pc = "workflow"
           /\ answered' = answered + 1
           /\ last' = handler
           /\ Exists(CurRepodir \o (IF handler = "submit_issue" THEN issue
                                    ELSE commit))
           /\ MissingBlankSecondLine(DraftRead(handler)))
          => (outcome' = "Exception" /\ effects' = <<>> /\ fs' = fs)]_vars

-----------------------------------------------------------------------------
(* What get_typo is to return, stated on the diff without the code's loops. *)

TheLines == SplitLines(diff)

\* whether a line starts with mark and is no file header ("--- ", "+++ ")
Marked(line, mark) ==
    /\ Len(line) >= 1 /\ line[1] = mark
    /\ ~(Len(line) >= 4 /\ line[2] = mark /\ line[3] = mark /\ line[4] = SP)

DeletionLines ==
    LET lines == TheLines IN {i \in 1..Len(lines) : Marked(lines[i], "-")}

AdditionLines ==
    LET lines == TheLines IN {i \in 1..Len(lines) : Marked(lines[i], "+")}

OldFileLines ==
    LET lines == TheLines
    IN  {i \in 1..Len(lines) :
            /\ Len(lines[i]) >= 6
            /\ \A k \in 1..6 : lines[i][k] = <<"-", "-", "-", SP, "a", "/">>[k]}

\* the k-th smallest member of a set of numbers
Nth(S, k) == CHOOSE x \in S : Cardinality({y \in S : y < x}) = k - 1

\* the whitespace-delimited tokens of a text: a token starts at a symbol that
\* is no whitespace and follows whitespace or nothing, and ends at the next
\* symbol that is no whitespace and is followed by whitespace or nothing
TokenStarts(text) ==
    {i \in 1..Len(text) :
        text[i] \notin Whitespace /\ (i = 1 \/ text[i - 1] \in Whitespace)}

TokenEnds(text) ==
    {i \in 1..Len(text) :
        text[i] \notin Whitespace /\ (i = Len(text) \/ text[i + 1] \in Whitespace)}

TokensOf(text) ==
    LET starts == TokenStarts(text)
        ends == TokenEnds(text)
    IN  [k \in 1..Cardinality(starts) |->
            SubSeq(text, Nth(starts, k), Nth(ends, k))]

FirstDeletionTokens == TokensOf(Tail(TheLines[Nth(DeletionLines, 1)]))
FirstAdditionTokens == TokensOf(Tail(TheLines[Nth(AdditionLines, 1)]))

\* the positions at which both lines have a token and the tokens differ
DifferingPositions ==
    LET d == FirstDeletionTokens
        a == FirstAdditionTokens
    IN  {i \in 1..Len(d) : i <= Len(a) /\ d[i] # a[i]}

OldFilePaths ==
    LET lines == TheLines
        headers == OldFileLines
    IN  [k \in 1..Cardinality(headers) |->
            SubSeq(lines[Nth(headers, k)], 7, Len(lines[Nth(headers, k)]))]

C6_FailsExactlyWhen ==
    pc = "got_typo" =>
        LET no_diff == DeletionLines = {} \/ AdditionLines = {}
            not_located == ~no_diff /\ DifferingPositions = {}
        IN  /\ typo.status \in {"ok", "ProcessingFailed"}
            /\ (typo.status = "ProcessingFailed"
                   /\ typo.message = "Could not read diff") <=> no_diff
            /\ (typo.status = "ProcessingFailed"
                   /\ typo.message = "Could not locate typo") <=> not_located
            /\ typo.status = "ok" <=> (~no_diff /\ ~not_located)

C6_Witness ==
    /\ pc = "got_typo"
    /\ typo.message = "Could not locate typo"
    /\ Len(FirstDeletionTokens) < Len(FirstAdditionTokens)
    /\ Len(FirstDeletionTokens) > 0

-----------------------------------------------------------------------------

\* the names of the calls in effects
Ops == [i \in 1..Len(effects) |-> effects[i].op]

IsPrefix(a, b) == Len(a) <= Len(b) /\ a = SubSeq(b, 1, Len(a))

\* C7: submit commit reads the checked-out branch, commits with the commit
\* message sentinel, pushes to bugfix/typo_<addWord>, then creates the pull
\* request with that branch as head and the checked-out branch as base; no
\* pull request is created when the commit or the push failed.
C7_SubmitCommitOrder ==
    (last = "submit_commit" /\ effects # <<>>) =>
        /\ IsPrefix(Ops, <<"git symbolic-ref", "git commit", "git push",
                           "create_pull">>)
        /\ outcome = "returned" <=> Len(effects) = 4 /\ pc = "workflow"
        /\ outcome = "ProcessExecutionError" => Len(effects) <= 3
        /\ Len(effects) >= 3 =>
              \E name \in DOMAIN Saves, to_branch \in Branches :
                 LET remote == <<"bugfix/typo_">> \o Saves[name].add_word
                 IN  /\ effects[2].args = <<Saves[name].repodir, <<"-F">>,
                                            <<"__commit__.txt">>>>
                     /\ effects[3].args = <<Saves[name].repodir, <<"origin">>,
                                            to_branch \o <<":">> \o remote>>
                     /\ Len(effects) = 4 =>
                           /\ effects[4].args[4] = to_branch
                           /\ effects[4].args[5] = <<"me", ":">> \o remote

C7_Witness ==
    /\ last = "submit_commit"
    /\ outcome = "returned"
    /\ Len(effects) = 4
    /\ effects[4].args[4] = <<"dev">>

\* C8: a failure of the hosting API or of version control during a menu action
\* reaches the top-level loop, which prompts the top-level menu again.
C8_FailuresReturnToMenu ==
    (last \in {"prepare_a_change", "submit_issue", "submit_commit"}
        /\ outcome \in {"GithubException", "ProcessExecutionError"}) => pc = "top"

\* C9: NoRepositoriesAvailable and the failures of typo extraction return
\* control to the top-level menu with both store collections as they were, and
\* run_invocation returns only when the operator quits at the top-level menu.
C9_HandledFailuresRePrompt ==
    [][/\ (answered' = answered + 1
              /\ outcome' \in {"NoRepoException", "ProcessingFailed"})
          => (pc' = "top" /\ store' = store)
       /\ (pc' = "returned" /\ pc # "returned")
          => (pc = "top" /\ last' = "run_invocation" /\ outcome' = "returned")]_vars

C9_Witness ==
    /\ pc = "top"
    /\ last = "prepare_a_change"
    /\ outcome = "ProcessingFailed"
    /\ typo.message = "Could not locate typo"
    /\ DOMAIN Saves # {}

\* C10: after a save, the pending-changes collection read back holds under the
\* repository's name one entry with the deleteWord, addWord, filePaths and
\* repodir that were saved, and the entries of the other repositories are as
\* they were.
C10_SaveRoundTrip ==
    [][(/\ answered' = answered + 1
        /\ last' = "prepare_a_change"
        /\ outcome' = "returned"
        /\ Len(effects') = 2)
       => LET repodir == effects'[1].args[1]
              name == PathName(repodir)
              reloaded == get_json_value(store', "repository_saves")
          IN  /\ typo'.status = "ok"
              /\ KnownRepos[name] = repodir
              /\ DOMAIN reloaded = DOMAIN Saves \cup {name}
              /\ reloaded[name] = [del_word |-> typo'.del_word,
                                   add_word |-> typo'.add_word,
                                   file_paths |-> typo'.file_paths,
                                   repodir |-> repodir]
              /\ \A other \in DOMAIN Saves \ {name} :
                    reloaded[other] = Saves[other]]_vars

C10_Witness ==
    /\ last = "prepare_a_change"
    /\ outcome = "returned"
    /\ Len(effects) = 2
    /\ Cardinality(DOMAIN Saves) = 2
    /\ \E name \in DOMAIN Saves : Saves[name].del_word = <<"sat">>

-----------------------------------------------------------------------------

\* C11: in every reachable state of the store, every PendingChange of the
\* pending-changes collection has deleteWord different from addWord.
C11_SavedWordsDiffer ==
    \A name \in DOMAIN Saves : Saves[name].del_word # Saves[name].add_word

C11_Witness ==
    /\ last = "prepare_a_change"
    /\ outcome = "returned"
    /\ \E name \in DOMAIN Saves :
          /\ Saves[name].del_word = <<"sat">>
          /\ Saves[name].add_word = <<"sit">>

\* C12: in every reachable state of the store, every PendingChange of the
\* pending-changes collection has a non-empty filePaths sequence.
C12_SavedFilePathsNonEmpty ==
    \A name \in DOMAIN Saves : Saves[name].file_paths # <<>>

\* C13: after remove_repo_selection ran for a selected repository, its name is
\* a key of neither collection; a collection that did not hold the name is
\* not rewritten and raises nothing; the entries of all other repositories in
\* both collections are as they were.
C13_RemovalDeletesBothEntries ==
    [][(/\ answered' = answered + 1
        /\ last' = "remove_repo_selection"
        /\ outcome' # "NoRepoException")
       => \E repo \in DOMAIN KnownRepos :
             /\ DOMAIN KnownRepos' = DOMAIN KnownRepos \ {repo}
             /\ DOMAIN Saves' = DOMAIN Saves \ {repo}
             /\ \A other \in DOMAIN KnownRepos' : KnownRepos'[other] = KnownRepos[other]
             /\ \A other \in DOMAIN Saves' : Saves'[other] = Saves[other]
             /\ DOMAIN store' \subseteq {"repository_map", "repository_saves"}
             /\ repo \notin DOMAIN Saves =>
                   /\ ("repository_saves" \in DOMAIN store')
                          = ("repository_saves" \in DOMAIN store)
                   /\ \A i \in 1..Len(effects') :
                         effects'[i] # Call("set_json_value", <<<<"repository_saves">>>>)
                   /\ (\A i \in 1..Len(effects') : effects'[i].op # "rmtree")
                         => outcome' = "returned"]_vars

C13_Witness ==
    /\ last = "remove_repo_selection"
    /\ outcome = "returned"
    /\ Len(effects) = 1
    /\ DOMAIN KnownRepos # {}
    /\ DOMAIN Saves # {}

\* the workflow markers present in the file system files: the issue draft, the
\* commit-message draft and the issues-disabled flag of any directory
MarkerFiles(files) ==
    {p \in DOMAIN files :
        PathName(p) \in {"__issue__.txt", "__commit__.txt", "__no_issues__.txt"}}

\* C14 as stated: a workflow marker that is present stays present after every
\* menu action.
C14_MarkersNeverDeleted ==
    [][\A p \in MarkerFiles(fs) : p \in DOMAIN fs']_vars

\* C14 as amended: a workflow marker that is present stays present after every
\* menu action, except that "remove a repository" answered with "Yes" deletes
\* the working directory of the removed repository with the markers in it.
C14_MarkersDeletedOnlyWithDirectory ==
    [][\A p \in MarkerFiles(fs) :
          \/ p \in DOMAIN fs'
          \/ /\ answered' = answered + 1
             /\ last' = "remove_repo_selection"
             /\ \E repo \in DOMAIN KnownRepos \ DOMAIN KnownRepos' :
                   /\ effects'[Len(effects')] = Call("rmtree", <<KnownRepos[repo]>>)
                   /\ Len(p) > Len(KnownRepos[repo])
                   /\ SubSeq(p, 1, Len(KnownRepos[repo])) = KnownRepos[repo]]_vars

C14_Witness ==
    /\ last = "remove_repo_selection"
    /\ outcome = "returned"
    /\ effects # <<>>
    /\ effects[Len(effects)].op = "rmtree"
    /\ MarkerFiles(fs) # {}
    /\ DOMAIN Saves # {}

\* a repository of the hosting service and the parents above it
ForkChain(repo) == {repo, ParentOf(repo), ParentOf(ParentOf(repo))}

\* C15: submit issue creates the issue on the upstream root of the fork chain;
\* when it succeeds it has written the commit-message sentinel with the body
\* "Closes #<n>", n being the number the issue creation returned, and the next
\* workflow menu offers "submit commit"; when it fails, before or in the issue
\* creation, the commit-message sentinel is neither created nor changed.
C15_SubmitIssueThenClosesDraft ==
    [][(answered' = answered + 1 /\ last' = "submit_issue")
       => LET commit_path == CurRepodir \o commit
              root == effects'[1].args[1]
          IN  /\ \A i \in 1..Len(effects') :
                    effects'[i].op = "create_issue" =>
                       /\ i = 1
                       /\ root \in ForkChain(<<"me", "/", cur.reponame>>)
                       /\ root # NoParent
                       /\ ParentOf(root) = NoParent
              /\ outcome' = "returned" =>
                    /\ Len(effects') = 2
                    /\ effects'[1].op = "create_issue"
                    /\ effects'[2].op = "issue.number"
                    /\ commit_path \in DOMAIN fs'
                    /\ ~load_commit_like_file(fs'[commit_path]).raised
                    /\ Strip(load_commit_like_file(fs'[commit_path]).body)
                          = <<"Closes", SP, "#">> \o effects'[2].args[1]
                    /\ pc' = "workflow"
                    /\ "submit commit" \in DOMAIN CurChoices'
                    /\ CurChoices'["submit commit"].handler = "submit_commit"
              /\ outcome' # "returned" =>
                    /\ fs' = fs
                    /\ \A i \in 1..Len(effects') : effects'[i].op # "issue.number"]_vars

C15_Witness ==
    /\ pc = "workflow"
    /\ last = "submit_issue"
    /\ outcome = "returned"
    /\ effects[1].args[1] = <<"org", "/", "r2">>
    /\ "submit commit" \in DOMAIN CurChoices

\* the name of the i-th candidate of obtain_sources
CandidateName(i) == Sources[i][Len(Sources[i])]

\* the i-th candidate is already forked when the walk reaches it: its name was
\* forked before the call, or is the name of a candidate walked past
AlreadyForked(i) ==
    \/ CandidateName(i) \in forked
    \/ \E j \in 1..(i - 1) : CandidateName(j) = CandidateName(i)

\* C16: add_new_repo passes over the candidates that are already forked or
\* that is_archived reports archived, none of which it checks out or
\* registers; the first other candidate it checks out, registers in the
\* known-repositories collection under its name with the path target/<name>,
\* and returns; when there is no other candidate it returns none and checks
\* out and registers nothing.
C16_AcquiresFirstEligible ==
    [][(answered' = answered + 1 /\ last' = "add_new_repo")
       => LET said(i, answer) ==
                  \E k \in 1..Len(effects') :
                     effects'[k] = Call("is_archived", <<Sources[i], <<answer>>>>)
              passed(i) == AlreadyForked(i) \/ said(i, "True")
              first == {i \in 1..Len(Sources) :
                           ~passed(i) /\ \A j \in 1..(i - 1) : passed(j)}
              checkouts == {k \in 1..Len(effects') : effects'[k].op = "checkout"}
              registers == {k \in 1..Len(effects') : effects'[k].op = "set_json_value"}
          IN  /\ outcome' = "returned"
              /\ Saves' = Saves
              /\ first = {} =>
                    /\ checkouts = {} /\ registers = {}
                    /\ store' = store /\ dirs' = dirs /\ fs' = fs
              /\ \A i \in first :
                    LET name == CandidateName(i)
                    IN  /\ said(i, "False")
                        /\ Cardinality(checkouts) = 1 /\ Cardinality(registers) = 1
                        /\ \A k \in checkouts :
                              /\ effects'[k].args = << <<name>>, <<"target">> >>
                              /\ \A r \in registers : k < r
                        /\ DOMAIN KnownRepos' = DOMAIN KnownRepos \cup {name}
                        /\ KnownRepos'[name] = <<"target", name>>
                        /\ \A other \in DOMAIN KnownRepos \ {name} :
                              KnownRepos'[other] = KnownRepos[other]
                        /\ <<"target", name>> \in dirs']_vars

C16_Witness ==
    /\ last = "add_new_repo"
    /\ Len(effects) = 7
    /\ effects[2] = Call("is_archived", <<Sources[1], <<"True">>>>)
    /\ effects[4] = Call("is_archived", <<Sources[2], <<"False">>>>)
    /\ KnownRepos = [name \in {"r2"} |-> <<"target", "r2">>]

\* the workflow transitions a menu offers: its entries other than "show ..."
Transitions(choices) ==
    [label \in {l \in DOMAIN choices : choices[l].handler # "show_path"} |->
        choices[label]]

\* the three files the transitions are to depend on, and the other probed files
Sentinels == {<<"__issue__.txt">>, <<"__commit__.txt">>, <<"__no_issues__.txt">>}
NonSentinels == ProbedPaths \ Sentinels

\* another repository, in another directory
ElsewhereDir == <<"elsewhere", "other">>

\* C17: the menu prompted in the per-repository loop is computed from the
\* files as they are at that prompt, and its transitions depend only on which
\* of __issue__.txt, __commit__.txt and __no_issues__.txt exist: any other
\* repository directory with the same three presences and any choice of the
\* other probed files (the PR record among them) is offered the same
\* transitions; right after a draft action the menu offers the matching
\* submit action.
C17_TransitionsFollowSentinels ==
    pc = "workflow" =>
        /\ \A extra \in SUBSET NonSentinels :
              LET present == {m \in Sentinels : Exists(CurRepodir \o m)} \cup extra
                  elsewhere == [q \in {ElsewhereDir \o path : path \in present} |->
                                   <<"edited">>]
              IN  Transitions(get_pr_or_issue_choices(elsewhere, "other",
                                                      ElsewhereDir))
                     = Transitions(CurChoices)
        /\ last = "make_issue" =>
              /\ "submit issue" \in DOMAIN CurChoices
              /\ CurChoices["submit issue"].handler = "submit_issue"
        /\ last = "make_a_commit" =>
              /\ "submit commit" \in DOMAIN CurChoices
              /\ CurChoices["submit commit"].handler = "submit_commit"

C17_Witness ==
    /\ pc = "workflow"
    /\ last = "make_a_commit"
    /\ Exists(CurRepodir \o prpath)
    /\ ~Exists(CurRepodir \o issue)
    /\ "submit commit" \in DOMAIN CurChoices

\* whether an issue draft is of the full variant
IsFullDraft(content) == \E i \in 1..Len(content) : content[i] = "# Issue Type"

\* C18: make_issue leaves in __issue__.txt the draft of the chosen variant for
\* the PendingChange, the same text it writes into a directory without the
\* file, whatever the file held before; run again with the same variant it
\* leaves the file system as it is; it changes no other file and no store
\* collection.
C18_MakeIssueIdempotent ==
    [][(answered' = answered + 1 /\ last' = "make_issue")
       => LET path == CurRepodir \o <<"__issue__.txt">>
          IN  /\ outcome' = "returned"
              /\ store' = store
              /\ DOMAIN fs' = DOMAIN fs \cup {path}
              /\ \A q \in DOMAIN fs \ {path} : fs'[q] = fs[q]
              /\ \E is_full \in {ContextTrue, ContextFalse} :
                    /\ fs'[path] = IssueDraft(cur.reposave, is_full)
                    /\ IsFullDraft(fs'[path]) = (is_full = ContextTrue)
              /\ (last = "make_issue"
                    /\ IsFullDraft(fs[path]) = IsFullDraft(fs'[path]))
                 => fs' = fs]_vars

C18_Witness ==
    /\ pc = "workflow"
    /\ last = "make_issue"
    /\ Exists(CurRepodir \o commit)
    /\ IsFullDraft(fs[CurRepodir \o issue])
    /\ Len(cur.reposave.file_paths) = 2

\* C19: __commit__.txt comes into being only by a "make a commit" or a
\* "submit issue" that succeeds; in a repository directory without
\* __no_issues__.txt only by "submit issue", so there every run of "submit
\* commit" (and every pull request) comes after a successful "submit issue"
\* in that directory, and every successful "submit issue" after a "make
\* issue" in that directory.
C19_SubmitCommitAfterSubmitIssue ==
    [][/\ \A p \in DOMAIN fs' \ DOMAIN fs :
             PathName(p) = "__commit__.txt" =>
                /\ pc = "workflow" /\ p = CurRepodir \o <<"__commit__.txt">>
                /\ outcome' = "returned"
                /\ last' \in {"make_a_commit", "submit_issue"}
                /\ last' = "make_a_commit" =>
                      Exists(CurRepodir \o <<"__no_issues__.txt">>)
       /\ \A i \in 1..Len(effects') :
             effects'[i].op = "create_pull" => last' = "submit_commit"
       /\ (/\ pc = "workflow"
           /\ answered' = answered + 1
           /\ ~Exists(CurRepodir \o <<"__no_issues__.txt">>))
          => /\ last' = "submit_commit" =>
                   /\ <<CurRepodir, "submit_issue">> \in done
                   /\ <<CurRepodir, "make_issue">> \in done
             /\ (last' = "submit_issue" /\ outcome' = "returned") =>
                   <<CurRepodir, "make_issue">> \in done]_vars

C19_Witness ==
    /\ pc = "workflow"
    /\ last = "submit_commit"
    /\ outcome = "returned"
    /\ effects[Len(effects)].op = "create_pull"
    /\ ~Exists(CurRepodir \o no_issues)
    /\ <<CurRepodir, "submit_issue">> \in done

====
